---------------------------- MODULE Spec2Model ----------------------------
(***************************************************************************)
(* A model of crossplane's builder (crossplane/builder.py), formatter      *)
(* (crossplane/formatter.py), build command (crossplane/__main__.py) and   *)
(* parser exceptions (crossplane/errors.py).                               *)
(*                                                                         *)
(* A Python str is a sequence of one-character strings; an "atomic unit"   *)
(* yielded by _escape is such a sequence of length 1 or 2.                 *)
(***************************************************************************)
EXTENDS Naturals, Sequences, FiniteSets, TLC

VARIABLES
    pc,                 \* position of the operation sequence being run
    arg,                \* the str handed to _enquote
    quoted,             \* what _enquote returned for arg
    tokens,             \* what the Token Scanner made of `quoted`
    EXTERNAL_BUILDERS,  \* builder.py's registry: directive name -> builder
    call,               \* arguments of the running build(...) call
    output,             \* what build(...) returned
    files,              \* the file system: path -> content of the file
    dirs,               \* the file system: the directories that exist
    writes,             \* the paths opened for writing so far
    argv,               \* the build command's arguments and JSON payload
    existing,           \* the build command's list of files to overwrite
    prompted,           \* whether the overwrite prompt was shown
    reply,              \* what the user answered to it
    printed,            \* what the build command printed
    source,             \* the configuration text handed to format
    formatted,          \* the results of the format passes so far
    response,           \* the failed response's first error entry
    error,              \* the parser exception that was raised
    message             \* what str(error) gave

quoteVars == <<arg, quoted, tokens>>
buildVars == <<EXTERNAL_BUILDERS, call, output>>
fsVars == <<files, dirs, writes>>
cmdVars == <<argv, existing, prompted, reply, printed>>
fmtVars == <<source, formatted>>
errVars == <<response, error, message>>
vars == <<pc, quoteVars, buildVars, fsVars, cmdVars, fmtVars, errVars>>

-----------------------------------------------------------------------------
(* Characters *)

BS == "\\"
DOLLAR == "$"
LBRACE == "{"
RBRACE == "}"
SEMI == ";"
DQ == "\""
SQ == "'"
SP == " "
NL == "\n"
HASH == "#"

\* builder.py:16
DELIMITERS == {LBRACE, RBRACE, SEMI}

\* The characters input strings are drawn from: every character the quoting
\* rules single out, one whitespace that is a control character, and one
\* ordinary letter.
Chars == {"a", BS, DOLLAR, LBRACE, RBRACE, SEMI, DQ, SQ, SP, NL, HASH}

\* Longest input string of the quoting operations.
MaxLen == 3

Strings(n) == UNION {[1..k -> Chars] : k \in 0..n}

\* str.isspace(): non-empty and every character is whitespace.
IsSpaceChar(c) == c \in {SP, NL}
isspace(s) == s # <<>> /\ \A i \in 1..Len(s) : IsSpaceChar(s[i])

-----------------------------------------------------------------------------
(* builder.py: _escape *)

\* The body of `for char in string`, from position i on: prev is the
\* generator's `prev`, out the units yielded so far.
RECURSIVE EscapeLoop(_, _, _, _)
EscapeLoop(string, i, prev, out) ==
    IF i > Len(string) THEN out
    ELSE LET char == string[i] IN
         IF prev = <<BS>> \/ prev \o <<char>> = <<DOLLAR, LBRACE>>
         THEN EscapeLoop(string, i + 1, prev \o <<char>>,
                         Append(out, prev \o <<char>>))
         ELSE LET out1 == IF prev = <<DOLLAR>> THEN Append(out, prev) ELSE out
                  out2 == IF char \notin {BS, DOLLAR}
                          THEN Append(out1, <<char>>) ELSE out1
              IN  EscapeLoop(string, i + 1, <<char>>, out2)

\* After the loop `char` is still the last character of string (or '').
_escape(string) ==
    LET out == EscapeLoop(string, 1, <<>>, <<>>)
    IN  IF string # <<>> /\ string[Len(string)] \in {BS, DOLLAR}
        THEN Append(out, <<string[Len(string)]>>)
        ELSE out

-----------------------------------------------------------------------------
(* builder.py: _needs_quotes *)

\* The loop `for char in chars` over units i..Len(chars); the result is
\* "returned" (TRUE was returned inside the loop) or the final `expanding`.
RECURSIVE NeedsQuotesLoop(_, _, _)
NeedsQuotesLoop(chars, i, expanding) ==
    IF i > Len(chars) THEN [returned |-> FALSE, expanding |-> expanding]
    ELSE LET char == chars[i] IN
         IF isspace(char) \/ char \in {<<LBRACE>>, <<SEMI>>, <<DQ>>, <<SQ>>}
         THEN [returned |-> TRUE, expanding |-> expanding]
         ELSE IF char = (IF expanding THEN <<DOLLAR, LBRACE>> ELSE <<RBRACE>>)
         THEN [returned |-> TRUE, expanding |-> expanding]
         ELSE IF char = (IF expanding THEN <<RBRACE>> ELSE <<DOLLAR, LBRACE>>)
         THEN NeedsQuotesLoop(chars, i + 1, ~expanding)
         ELSE NeedsQuotesLoop(chars, i + 1, expanding)

_needs_quotes(string) ==
    IF string = <<>> THEN TRUE
    ELSE LET chars == _escape(string)
             first == chars[1]
         IN  IF isspace(first)
                \/ first \in {<<LBRACE>>, <<RBRACE>>, <<SEMI>>, <<DQ>>, <<SQ>>,
                              <<DOLLAR, LBRACE>>}
             THEN TRUE
             ELSE LET r == NeedsQuotesLoop(chars, 2, FALSE)
                      last == chars[Len(chars)]
                  IN  IF r.returned THEN TRUE
                      ELSE last \in {<<BS>>, <<DOLLAR>>} \/ r.expanding

-----------------------------------------------------------------------------
(* builder.py: _enquote (the Python 3 branch; PY2 is false) *)

Contains(s, c) == \E i \in 1..Len(s) : s[i] = c

\* Mutant of ReprQuote: a quoting convention that always uses the double quote.
ReprQuoteAlwaysDouble(s) == DQ

\* repr() picks the single quote, unless the str holds a single quote and no
\* double quote.
ReprQuote(s) == IF Contains(s, SQ) /\ ~Contains(s, DQ) THEN DQ ELSE SQ

\* repr() of one character inside quotes q: backslash and the quote are
\* escaped, the control character newline becomes backslash-n, a printable
\* character stands for itself.
ReprChar(c, q) ==
    IF c = BS \/ c = q THEN <<BS, c>>
    ELSE IF c = NL THEN <<BS, "n">>
    ELSE <<c>>

RECURSIVE ReprBody(_, _)
ReprBody(s, q) ==
    IF s = <<>> THEN <<>> ELSE ReprChar(Head(s), q) \o ReprBody(Tail(s), q)

\* repr(arg)
repr(s) == LET q == ReprQuote(s) IN <<q>> \o ReprBody(s, q) \o <<q>>

\* str.replace('\\\\', '\\'): left to right, occurrences not overlapping.
RECURSIVE ReplaceBSBS(_)
ReplaceBSBS(s) ==
    IF s = <<>> THEN <<>>
    ELSE IF Len(s) >= 2 /\ s[1] = BS /\ s[2] = BS
    THEN <<BS>> \o ReplaceBSBS(SubSeq(s, 3, Len(s)))
    ELSE <<Head(s)>> \o ReplaceBSBS(Tail(s))

_enquote(a) == IF ~_needs_quotes(a) THEN a ELSE ReplaceBSBS(repr(a))

-----------------------------------------------------------------------------
(* The Token Scanner.  A token is [text, line, quoted]; a scan is          *)
(* [ok, tokens], ok = FALSE standing for the syntax error of a malformed   *)
(* token.                                                                  *)

Token(text, line, q) == [text |-> text, line |-> line, quoted |-> q]
ScanError(toks) == [ok |-> FALSE, tokens |-> toks]

LineAfter(line, c) == IF c = NL THEN line + 1 ELSE line

\* First position at or after i holding a newline, or Len(text) + 1.
RECURSIVE EndOfLine(_, _)
EndOfLine(text, i) ==
    IF i > Len(text) \/ text[i] = NL THEN i ELSE EndOfLine(text, i + 1)

\* The unquoted state: accumulate atomic units from position i.  Returns
\* [ok, text, next, line]: the token text and the position and line after it.
RECURSIVE ReadUnquoted(_, _, _, _, _)
ReadUnquoted(text, i, acc, expanding, line) ==
    IF i > Len(text)
    THEN [ok |-> ~expanding, text |-> acc, next |-> i, line |-> line]
    ELSE LET c == text[i] IN
         IF c = BS
         THEN IF i = Len(text)
              THEN [ok |-> FALSE, text |-> acc, next |-> i, line |-> line]
              ELSE ReadUnquoted(text, i + 2, acc \o <<BS, text[i + 1]>>,
                                expanding, LineAfter(line, text[i + 1]))
         ELSE IF expanding
         THEN ReadUnquoted(text, i + 1, Append(acc, c), c # RBRACE,
                           LineAfter(line, c))
         ELSE IF c = DOLLAR
         THEN IF i = Len(text)
              THEN [ok |-> FALSE, text |-> acc, next |-> i, line |-> line]
              ELSE IF text[i + 1] = LBRACE
              THEN ReadUnquoted(text, i + 2, acc \o <<DOLLAR, LBRACE>>, TRUE,
                                line)
              ELSE ReadUnquoted(text, i + 1, Append(acc, c), FALSE, line)
         ELSE IF IsSpaceChar(c) \/ c \in DELIMITERS
         THEN [ok |-> TRUE, text |-> acc, next |-> i, line |-> line]
         ELSE ReadUnquoted(text, i + 1, Append(acc, c), FALSE, line)

\* The quoted state, after the opening quote q.  Backslash + char decodes to
\* char, except inside an open ${ region, which is kept verbatim; the
\* unescaped matching quote ends the token.
RECURSIVE ReadQuoted(_, _, _, _, _, _)
ReadQuoted(text, i, q, acc, expanding, line) ==
    IF i > Len(text)
    THEN [ok |-> FALSE, text |-> acc, next |-> i, line |-> line]
    ELSE LET c == text[i] IN
         IF c = BS
         THEN IF i = Len(text)
              THEN [ok |-> FALSE, text |-> acc, next |-> i, line |-> line]
              ELSE ReadQuoted(text, i + 2, q,
                              IF expanding THEN acc \o <<BS, text[i + 1]>>
                              ELSE Append(acc, text[i + 1]),
                              expanding, LineAfter(line, text[i + 1]))
         ELSE IF c = q
         THEN [ok |-> TRUE, text |-> acc, next |-> i + 1, line |-> line]
         ELSE IF expanding
         THEN ReadQuoted(text, i + 1, q, Append(acc, c), c # RBRACE,
                         LineAfter(line, c))
         ELSE IF c = DOLLAR /\ i < Len(text) /\ text[i + 1] = LBRACE
         THEN ReadQuoted(text, i + 2, q, acc \o <<DOLLAR, LBRACE>>, TRUE, line)
         ELSE ReadQuoted(text, i + 1, q, Append(acc, c), FALSE,
                         LineAfter(line, c))

\* The skipping state at position i, on source line `line`.
RECURSIVE ScanFrom(_, _, _, _)
ScanFrom(text, i, line, toks) ==
    IF i > Len(text) THEN [ok |-> TRUE, tokens |-> toks]
    ELSE LET c == text[i] IN
         IF IsSpaceChar(c) THEN ScanFrom(text, i + 1, LineAfter(line, c), toks)
         ELSE IF c = HASH
         THEN LET j == EndOfLine(text, i)
              IN  ScanFrom(text, j, line,
                           Append(toks, Token(SubSeq(text, i, j - 1), line, FALSE)))
         ELSE IF c \in DELIMITERS
         THEN ScanFrom(text, i + 1, line, Append(toks, Token(<<c>>, line, FALSE)))
         ELSE IF c \in {DQ, SQ}
         THEN LET r == ReadQuoted(text, i + 1, c, <<>>, FALSE, line)
              IN  IF r.ok
                  THEN ScanFrom(text, r.next, r.line,
                                Append(toks, Token(r.text, line, TRUE)))
                  ELSE ScanError(toks)
         ELSE LET r == ReadUnquoted(text, i, <<>>, FALSE, line)
              IN  IF r.ok
                  THEN ScanFrom(text, r.next, r.line,
                                Append(toks, Token(r.text, line, FALSE)))
                  ELSE ScanError(toks)

scan(text) == ScanFrom(text, 1, 1, <<>>)

-----------------------------------------------------------------------------
(* builder.py: build                                                       *)
(*                                                                         *)
(* A statement is [directive, line, args, block, comment]: line is         *)
(* stmt.get('line', 0), so 0 stands for a statement without 'line'; block  *)
(* is <<>> when stmt.get('block') is None and <<children>> otherwise;      *)
(* comment is stmt['comment'], read for a comment statement only.          *)

TAB == "\t"

Stmt(directive, line, args, block, comment) ==
    [directive |-> directive, line |-> line, args |-> args,
     block |-> block, comment |-> comment]

NoBlock == <<>>
Block(children) == <<children>>

RECURSIVE Repeat(_, _)
Repeat(s, n) == IF n = 0 THEN <<>> ELSE s \o Repeat(s, n - 1)

\* ' '.join(args)
RECURSIVE Join(_)
Join(args) ==
    IF args = <<>> THEN <<>>
    ELSE IF Len(args) = 1 THEN args[1]
    ELSE args[1] \o <<SP>> \o Join(Tail(args))

\* builder.py:82
Padding(indent, tabs) == IF tabs THEN <<TAB>> ELSE Repeat(<<SP>>, indent)

\* builder.py:84-89
HeaderLine1 ==
    <<"#", " ", "T", "h", "i", "s", " ", "c", "o", "n", "f", "i", "g", " ",
      "w", "a", "s", " ", "b", "u", "i", "l", "t", " ", "f", "r", "o", "m",
      " ", "J", "S", "O", "N", " ", "u", "s", "i", "n", "g", " ", "N", "G",
      "I", "N", "X", " ", "c", "r", "o", "s", "s", "p", "l", "a", "n", "e",
      ".", NL>>
HeaderLine2 ==
    <<"#", " ", "I", "f", " ", "y", "o", "u", " ", "e", "n", "c", "o", "u",
      "n", "t", "e", "r", " ", "a", "n", "y", " ", "b", "u", "g", "s", " ",
      "p", "l", "e", "a", "s", "e", " ", "r", "e", "p", "o", "r", "t", " ",
      "t", "h", "e", "m", " ", "h", "e", "r", "e", ":", NL>>
HeaderLine3 ==
    <<"#", " ", "h", "t", "t", "p", "s", ":", "/", "/", "g", "i", "t", "h",
      "u", "b", ".", "c", "o", "m", "/", "n", "g", "i", "n", "x", "i", "n",
      "c", "/", "c", "r", "o", "s", "s", "p", "l", "a", "n", "e", "/", "i",
      "s", "s", "u", "e", "s", NL>>
head(header) ==
    IF header THEN HeaderLine1 \o HeaderLine2 \o HeaderLine3 \o <<NL>>
    ELSE <<>>

\* What a registered builder returns is its own business: the text records
\* which builder ran and the four arguments it was handed.
Digit == <<"0", "1", "2", "3", "4", "5", "6", "7", "8", "9">>
ExternalBuilt(builder, stmt, padding, indent, tabs) ==
    <<"@", builder, ":">> \o stmt.directive \o <<"|">> \o padding
        \o <<"|", Digit[indent + 1], IF tabs THEN "T" ELSE "F">>

\* [_enquote(arg) for arg in stmt['args']]
EnquoteAll(args) == [k \in 1..Len(args) |-> _enquote(args[k])]

\* builder.py:109-114
BuiltText(directive, args) ==
    IF directive = <<"i", "f">> THEN <<"i", "f", " ", "(">> \o Join(args) \o <<")">>
    ELSE IF args # <<>> THEN directive \o <<SP>> \o Join(args)
    ELSE directive

\* Mutant of Emit: the statement's line is not indented.
EmitWithoutMargin(out, margin, built) ==
    out \o (IF out # <<>> THEN <<NL>> ELSE <<>>) \o built

\* builder.py:123
Emit(out, margin, built) ==
    out \o (IF out # <<>> THEN <<NL>> ELSE <<>>) \o margin \o built

\* _build_block: BuildLoop is `for stmt in block` from the i-th statement on.
\* env holds the enclosing build's padding, indent, tabs and the registry.
RECURSIVE BuildLoop(_, _, _, _, _, _)
BuildLoop(out, block, i, depth, last_line, env) ==
    IF i > Len(block) THEN out
    ELSE
    LET stmt == block[i]
        margin == Repeat(env.padding, depth)
        directive == _enquote(stmt.directive)
        line == stmt.line
    IN  IF directive = <<HASH>> /\ line = last_line
        THEN BuildLoop(out \o <<SP, HASH>> \o stmt.comment, block, i + 1,
                       depth, last_line, env)
        ELSE IF directive = <<HASH>>
        THEN BuildLoop(Emit(out, margin, <<HASH>> \o stmt.comment), block,
                       i + 1, depth, line, env)
        ELSE IF directive \in DOMAIN env.builders
        THEN BuildLoop(Emit(out, margin,
                            ExternalBuilt(env.builders[directive], stmt,
                                          env.padding, env.indent, env.tabs)),
                       block, i + 1, depth, line, env)
        ELSE
        LET text == BuiltText(directive, EnquoteAll(stmt.args))
            built ==
                IF stmt.block = NoBlock THEN text \o <<SEMI>>
                ELSE BuildLoop(text \o <<SP, LBRACE>>, stmt.block[1], 1,
                               depth + 1, line, env)
                     \o <<NL>> \o margin \o <<RBRACE>>
        IN  BuildLoop(Emit(out, margin, built), block, i + 1, depth, line, env)

_build_block(out, block, depth, last_line, env) ==
    BuildLoop(out, block, 1, depth, last_line, env)

build(payload, indent, tabs, header, builders) ==
    LET env == [padding |-> Padding(indent, tabs), indent |-> indent,
                tabs |-> tabs, builders |-> builders]
    IN  head(header) \o _build_block(<<>>, payload, 0, 0, env)

\* builder.py:159-161
RegisteredWith(registry, builder, directives) ==
    [d \in (DOMAIN registry) \cup directives |->
        IF d \in directives THEN builder ELSE registry[d]]

-----------------------------------------------------------------------------
(* Quoting one argument: _enquote, then either the Token Scanner reads the *)
(* text back or build renders a statement that carries the argument.       *)

NoScan == [ok |-> TRUE, tokens |-> <<>>]
NoCall == [payload |-> <<>>, indent |-> 4, tabs |-> FALSE, header |-> FALSE]
NoBuilders == <<>>

LogFormat ==
    <<"l", "o", "g", "_", "f", "o", "r", "m", "a", "t">>
Main ==
    <<"m", "a", "i", "n">>
LogFormatArg ==
    <<"$", "r", "e", "m", "o", "t", "e", "_", "a", "d", "d", "r", " ", "-",
      " ", "$", "r", "e", "m", "o", "t", "e", "_", "u", "s", "e", "r">>

QuoteInputs == Strings(MaxLen) \cup {LogFormatArg}

\* The registry is empty when builder.py is imported; nothing is built yet.
BuildIdle ==
    /\ EXTERNAL_BUILDERS = NoBuilders
    /\ call = NoCall
    /\ output = <<>>

\* No file system in view and no build command running.
NoArgv ==
    [force |-> FALSE, stdout |-> FALSE, verbose |-> FALSE, indent |-> 4,
     tabs |-> FALSE, header |-> TRUE, config |-> <<>>]
NoFiles == <<>>
NoReply == [kind |-> "none", text |-> <<>>]
FilesIdle ==
    /\ files = NoFiles
    /\ dirs = {}
    /\ writes = {}
CmdIdle ==
    /\ argv = NoArgv
    /\ existing = <<>>
    /\ prompted = FALSE
    /\ reply = NoReply
    /\ printed = <<>>

\* Python's None and a present value of an Optional.
None == <<>>
Some(x) == <<x>>

\* No response has failed and no exception was raised.
NoErrorEntry == [error |-> <<>>, file |-> <<>>, line |-> None]
NoError == [cls |-> "", strerror |-> <<>>, filename |-> None, lineno |-> None]
NoStr == [raised |-> "", text |-> <<>>]
ErrIdle ==
    /\ response = NoErrorEntry
    /\ error = NoError
    /\ message = NoStr

\* Nothing is being formatted.
FmtIdle ==
    /\ source = <<>>
    /\ formatted = <<>>

QuoteIdle ==
    /\ arg = <<>>
    /\ quoted = <<>>
    /\ tokens = NoScan

InitQuote ==
    /\ pc = "enquote"
    /\ arg \in QuoteInputs
    /\ quoted = <<>>
    /\ tokens = NoScan
    /\ BuildIdle
    /\ FilesIdle
    /\ CmdIdle
    /\ FmtIdle
    /\ ErrIdle

Enquote ==
    /\ pc = "enquote"
    /\ quoted' = _enquote(arg)
    /\ pc' = "quoted"
    /\ UNCHANGED <<arg, tokens, buildVars, fsVars, cmdVars, fmtVars,
                   errVars>>

Scan ==
    /\ pc = "quoted"
    /\ tokens' = scan(quoted)
    /\ pc' = "scanned"
    /\ UNCHANGED <<arg, quoted, buildVars, fsVars, cmdVars, fmtVars,
                   errVars>>

\* build([{'directive': 'log_format', 'line': 1, 'args': ['main', arg]}])
BuildStatement ==
    /\ pc = "quoted"
    /\ call' = [payload |-> <<Stmt(LogFormat, 1, <<Main, arg>>, NoBlock, <<>>)>>,
                indent |-> 4, tabs |-> FALSE, header |-> FALSE]
    /\ output' = build(call'.payload, call'.indent, call'.tabs, call'.header,
                       EXTERNAL_BUILDERS)
    /\ pc' = "built"
    /\ UNCHANGED <<quoteVars, EXTERNAL_BUILDERS, fsVars, cmdVars, fmtVars,
                   errVars>>

NextQuote == Enquote \/ Scan \/ BuildStatement

SpecQuote == InitQuote /\ [][NextQuote]_vars

-----------------------------------------------------------------------------
(* Claims about the quoting codec, checked under SpecQuote *)

IsComment(t) == ~t.quoted /\ t.text # <<>> /\ t.text[1] = HASH

\* C1: quote round trip.  Once the Token Scanner has read quote(v), it has
\* produced exactly one token without error, and the token's decoded value
\* is v.
QuoteRoundTrip ==
    pc = "scanned" =>
        /\ tokens.ok
        /\ Len(tokens.tokens) = 1
        /\ tokens.tokens[1].text = arg

\* C2: unquoted pass-through.  When needs_quoting(v) is false, quote(v) is v
\* and the scan of it is exactly one token, not a comment, with value v.
UnquotedPassThrough ==
    (pc \in {"quoted", "scanned"} /\ ~_needs_quotes(arg)) =>
        /\ quoted = arg
        /\ pc = "scanned" =>
            /\ tokens.ok
            /\ Len(tokens.tokens) = 1
            /\ tokens.tokens[1].text = arg
            /\ ~IsComment(tokens.tokens[1])

\* The atomic units of a str as spec section 4.1 defines them: a backslash
\* with the character after it, the pair ${, or a single character.
RECURSIVE Units(_)
Units(s) ==
    IF s = <<>> THEN <<>>
    ELSE IF Len(s) >= 2 /\ (s[1] = BS \/ (s[1] = DOLLAR /\ s[2] = LBRACE))
    THEN <<SubSeq(s, 1, 2)>> \o Units(SubSeq(s, 3, Len(s)))
    ELSE <<SubSeq(s, 1, 1)>> \o Units(Tail(s))

\* Whether the units before position i (from the second on) leave an
\* expansion region open: the flag is toggled by } when open and by ${ when
\* closed.
RECURSIVE Inside(_, _)
Inside(us, i) ==
    IF i <= 2 THEN FALSE
    ELSE LET before == Inside(us, i - 1)
             u == us[i - 1]
         IN  IF u = (IF before THEN <<RBRACE>> ELSE <<DOLLAR, LBRACE>>)
             THEN ~before ELSE before

ListedCondition(value) ==
    LET us == Units(value) IN
    \/ value = <<>>
    \/ /\ value # <<>>
       /\ \/ isspace(us[1])
          \/ us[1] \in {<<LBRACE>>, <<RBRACE>>, <<SEMI>>, <<DQ>>, <<SQ>>,
                        <<DOLLAR, LBRACE>>}
          \/ \E i \in 2..Len(us) :
                \/ isspace(us[i])
                \/ us[i] \in {<<LBRACE>>, <<SEMI>>, <<DQ>>, <<SQ>>}
                \/ us[i] = <<RBRACE>> /\ ~Inside(us, i)
                \/ us[i] = <<DOLLAR, LBRACE>> /\ Inside(us, i)
          \/ Inside(us, Len(us) + 1)
          \/ us[Len(us)] \in {<<BS>>, <<DOLLAR>>}

\* C3: needs_quoting(value) is true exactly when one of the listed
\* conditions holds; a value ending in an escaped pair and meeting no other
\* condition needs no quoting.
NeedsQuotingConditions ==
    pc = "quoted" => ((quoted # arg) <=> ListedCondition(arg))

DoubleQuotedLogFormat ==
    <<"l", "o", "g", "_", "f", "o", "r", "m", "a", "t", " ", "m", "a", "i",
      "n", " ", DQ, "$", "r", "e", "m", "o", "t", "e", "_", "a", "d", "d",
      "r", " ", "-", " ", "$", "r", "e", "m", "o", "t", "e", "_", "u", "s",
      "e", "r", DQ, ";">>
SingleQuotedLogFormat ==
    <<"l", "o", "g", "_", "f", "o", "r", "m", "a", "t", " ", "m", "a", "i",
      "n", " ", SQ, "$", "r", "e", "m", "o", "t", "e", "_", "a", "d", "d",
      "r", " ", "-", " ", "$", "r", "e", "m", "o", "t", "e", "_", "u", "s",
      "e", "r", SQ, ";">>

\* C4 as stated: whenever needs_quoting(value), quote(value) begins and ends
\* with the double quote, and the log_format statement builds to the
\* double-quoted line.
QuotedInDoubleQuotes ==
    /\ (pc = "quoted" /\ _needs_quotes(arg)) =>
            quoted[1] = DQ /\ quoted[Len(quoted)] = DQ
    /\ (pc = "built" /\ arg = LogFormatArg) => output = DoubleQuotedLogFormat

\* C4 as amended: whenever needs_quoting(value), quote(value) begins and
\* ends with one and the same quote character, the double quote when value
\* holds a single quote and no double quote and the single quote otherwise;
\* the log_format statement builds to the single-quoted line.
QuotedInReprQuotes ==
    /\ (pc = "quoted" /\ _needs_quotes(arg)) =>
            LET q == IF (\E i \in 1..Len(arg) : arg[i] = SQ)
                        /\ ~(\E i \in 1..Len(arg) : arg[i] = DQ)
                     THEN DQ ELSE SQ
            IN  Len(quoted) >= 2 /\ quoted[1] = q /\ quoted[Len(quoted)] = q
    /\ (pc = "built" /\ arg = LogFormatArg) => output = SingleQuotedLogFormat

\* C4 witness: the log_format statement with the argument that needs quoting
\* has been built.
LogFormatBuilt ==
    pc = "built" /\ arg = LogFormatArg /\ _needs_quotes(arg) /\ quoted # arg

-----------------------------------------------------------------------------
(* Building statement trees: register_external_builder and build           *)

A == <<"a">>
B == <<"b">>
If == <<"i", "f">>
E == <<"e">>
XY == <<"x", SP, "y">>
CommentText == <<SP, "c">>

\* Largest 'line' of a statement; line 0 is a statement without 'line'.
MaxLine == 1
Lines == 0..MaxLine

Comment(l) == Stmt(<<HASH>>, l, <<>>, NoBlock, CommentText)
Leaf(directive, args, l) == Stmt(directive, l, args, NoBlock, <<>>)
WithBlock(directive, args, l, children) ==
    Stmt(directive, l, args, Block(children), <<>>)

\* Sibling lists of at most two statements.
UpToTwo(S) == {<<>>} \cup {<<x>> : x \in S} \cup {<<x, y>> : x \in S, y \in S}

Comments == {Comment(l) : l \in Lines}
Leaves ==
    {Leaf(A, <<>>, l) : l \in Lines} \cup {Leaf(A, <<B>>, l) : l \in Lines}
        \cup {Leaf(If, <<B>>, l) : l \in Lines}
        \cup {Leaf(E, <<>>, l) : l \in Lines} \cup Comments
InnerLeaves == {Leaf(A, <<>>, l) : l \in Lines} \cup Comments
\* Blocks of leaves, and blocks that hold one such block.
Blocks1 ==
    {WithBlock(A, <<>>, l, c) : l \in Lines, c \in UpToTwo(InnerLeaves)}
        \cup {WithBlock(If, <<B>>, l, c) : l \in Lines, c \in UpToTwo(InnerLeaves)}
Blocks2 == {WithBlock(A, <<>>, l, <<b>>) : l \in Lines, b \in Blocks1}
Trees == Leaves \cup Blocks1 \cup Blocks2
\* A payload: nothing, one tree, or one tree followed by a leaf or comment.
Payloads ==
    {<<>>} \cup {<<t>> : t \in Trees} \cup {<<t, x>> : t \in Trees, x \in Leaves}

Indents == {0, 2}
Settings ==
    [indent : Indents, tabs : BOOLEAN, header : BOOLEAN]

InitBuild ==
    /\ pc = "ready"
    /\ QuoteIdle
    /\ BuildIdle
    /\ FilesIdle
    /\ CmdIdle
    /\ FmtIdle
    /\ ErrIdle

\* register_external_builder(builder, directives)
register_external_builder(builder, directives) ==
    /\ pc = "ready"
    /\ EXTERNAL_BUILDERS' = RegisteredWith(EXTERNAL_BUILDERS, builder, directives)
    /\ UNCHANGED <<pc, quoteVars, call, output, fsVars, cmdVars, fmtVars,
                   errVars>>

\* build(payload, indent, tabs, header)
Build(payload, s) ==
    /\ pc = "ready"
    /\ call' = [payload |-> payload, indent |-> s.indent, tabs |-> s.tabs,
                header |-> s.header]
    /\ output' = build(payload, s.indent, s.tabs, s.header, EXTERNAL_BUILDERS)
    /\ pc' = "built"
    /\ UNCHANGED <<quoteVars, EXTERNAL_BUILDERS, fsVars, cmdVars, fmtVars,
                   errVars>>

\* A caller builds once, after any registration.
BuildCall ==
    /\ pc = "ready"
    /\ \E payload \in Payloads, s \in Settings : Build(payload, s)

NextBuild ==
    \/ register_external_builder("1", {E})
    \/ BuildCall

SpecBuild == InitBuild /\ [][NextBuild]_vars

-----------------------------------------------------------------------------
(* Registering custom serializers under several names, then building *)

Builders == {"1", "2"}
ExtNames == {E, XY, <<HASH>>}
ExtChildren == {NoBlock, Block(<<Leaf(A, <<>>, 1)>>)}
ExtStmts ==
    {Stmt(d, l, <<>>, b, CommentText) :
        d \in ExtNames \cup {A}, l \in Lines, b \in ExtChildren}
ExtPayloads == UpToTwo(ExtStmts)

RegisterCall ==
    \E builder \in Builders, directives \in (SUBSET ExtNames) \ {{}} :
        register_external_builder(builder, directives)

ExtBuildCall ==
    /\ pc = "ready"
    /\ \E payload \in ExtPayloads, s \in Settings : Build(payload, s)

NextExt == RegisterCall \/ ExtBuildCall

SpecExt == InitBuild /\ [][NextExt]_vars

-----------------------------------------------------------------------------
(* Claims about build, checked under SpecBuild and SpecExt *)

Front(q) == SubSeq(q, 1, Len(q) - 1)
Last(q) == q[Len(q)]
IsCommentStmt(stmt) == stmt.directive = <<HASH>>

\* build's result for payload under the settings and registry of the call.
Built(payload) ==
    build(payload, call.indent, call.tabs, call.header, EXTERNAL_BUILDERS)
\* The same without the header banner.
BuiltBody(payload) ==
    build(payload, call.indent, call.tabs, FALSE, EXTERNAL_BUILDERS)

\* `text` on a line of its own below `out`, behind `margin`.
OnOwnLine(out, body, margin, text) ==
    out \o (IF body # <<>> THEN <<NL>> ELSE <<>>) \o margin \o text

\* C6, at the top level: when the payload ends in a comment statement, the
\* output is the output of the statements before it followed by " #comment"
\* when the comment's line equals the line of the statement before it, and
\* by "#comment" on a line of its own (the margin is empty at the top level)
\* when the line differs or no statement comes before it.
TopLevelCommentPlacement ==
    (call.payload # <<>> /\ IsCommentStmt(Last(call.payload))) =>
        LET q == Front(call.payload)
            c == Last(call.payload)
        IN  IF q # <<>> /\ c.line = Last(q).line
            THEN output = Built(q) \o <<SP, HASH>> \o c.comment
            ELSE output = OnOwnLine(Built(q), BuiltBody(q), <<>>,
                                    <<HASH>> \o c.comment)

\* C6, inside a block: when the payload is one statement whose block ends in
\* a comment, the comment goes onto the line of the statement before it (the
\* sibling, or the opening line of the parent when it is the first child)
\* when the lines are equal, else onto a line of its own behind one
\* indentation unit; the closing brace follows.
NestedCommentPlacement ==
    (/\ Len(call.payload) = 1
     /\ call.payload[1].block # NoBlock
     /\ call.payload[1].directive \notin DOMAIN EXTERNAL_BUILDERS
     /\ call.payload[1].block[1] # <<>>
     /\ IsCommentStmt(Last(call.payload[1].block[1]))) =>
        LET t == call.payload[1]
            q == Front(t.block[1])
            c == Last(t.block[1])
            prev == IF q = <<>> THEN t ELSE Last(q)
            \* the output for t without the comment, up to its closing brace
            closed == Built(<<[t EXCEPT !.block = Block(q)]>>)
            open == SubSeq(closed, 1, Len(closed) - 2)
            pad == Padding(call.indent, call.tabs)
        IN  output =
                (IF c.line = prev.line
                 THEN open \o <<SP, HASH>> \o c.comment
                 ELSE open \o <<NL>> \o pad \o <<HASH>> \o c.comment)
                \o <<NL, RBRACE>>

\* C6: comment placement in build.
CommentPlacement ==
    pc = "built" => TopLevelCommentPlacement /\ NestedCommentPlacement

\* C8: a statement whose directive is a registered name is rendered as
\* margin + builder(statement, padding, indent_width, use_tabs) and nothing
\* else; stated for the last statement of the payload, whose margin is empty.
CustomSerializerDelegation ==
    (/\ pc = "built"
     /\ call.payload # <<>>
     /\ Last(call.payload).directive \in DOMAIN EXTERNAL_BUILDERS) =>
        LET q == Front(call.payload)
            stmt == Last(call.payload)
        IN  output = OnOwnLine(Built(q), BuiltBody(q), <<>>,
                ExternalBuilt(EXTERNAL_BUILDERS[stmt.directive], stmt,
                              Padding(call.indent, call.tabs), call.indent,
                              call.tabs))

\* First position at or after i where s holds c, or Len(s) + 1.
RECURSIVE Find(_, _, _)
Find(s, c, i) == IF i > Len(s) \/ s[i] = c THEN i ELSE Find(s, c, i + 1)

\* The lines of a text ('' has none).
RECURSIVE SplitLines(_)
SplitLines(s) ==
    IF s = <<>> THEN <<>>
    ELSE LET j == Find(s, NL, 1)
         IN  IF j > Len(s) THEN <<s>>
             ELSE IF j = Len(s) THEN <<SubSeq(s, 1, j - 1), <<>>>>
             ELSE <<SubSeq(s, 1, j - 1)>> \o SplitLines(SubSeq(s, j + 1, Len(s)))

IsBlank(c) == c \in {SP, TAB}
AllBlank(s) == \A i \in 1..Len(s) : IsBlank(s[i])

RECURSIVE LeadingBlanks(_)
LeadingBlanks(s) ==
    IF s # <<>> /\ IsBlank(s[1]) THEN 1 + LeadingBlanks(Tail(s)) ELSE 0

NoDelimiter(s) == \A i \in 1..Len(s) : s[i] \notin DELIMITERS

\* What one output line shows of the statement it starts: nothing for a
\* line that holds only a comment; else the line's margin and whether the
\* text behind it is a custom serializer's, a lone closing brace, a text
\* followed by " {", or a text followed by ";".  A trailing " #comment" is
\* not part of the statement.
LineEvent(line) ==
    LET h == Find(line, HASH, 1)
        pre == SubSeq(line, 1, h - 1)
    IN  IF h <= Len(line) /\ AllBlank(pre) THEN <<>>
        ELSE
        LET code == IF h <= Len(line) THEN SubSeq(pre, 1, Len(pre) - 1) ELSE line
            k == LeadingBlanks(code)
            margin == SubSeq(code, 1, k)
            rest == SubSeq(code, k + 1, Len(code))
            n == Len(rest)
            kind ==
                IF rest = <<>> THEN "bad"
                ELSE IF rest[1] = "@" THEN "ext"
                ELSE IF rest = <<RBRACE>> THEN "close"
                ELSE IF /\ n >= 3 /\ rest[n] = LBRACE /\ rest[n - 1] = SP
                        /\ ~IsBlank(rest[n - 2])
                        /\ NoDelimiter(SubSeq(rest, 1, n - 1))
                     THEN "open"
                ELSE IF /\ n >= 2 /\ rest[n] = SEMI /\ ~IsBlank(rest[n - 1])
                        /\ NoDelimiter(SubSeq(rest, 1, n - 1))
                     THEN "leaf"
                ELSE "bad"
        IN  <<[kind |-> kind, margin |-> margin]>>

RECURSIVE TextEvents(_)
TextEvents(lines) ==
    IF lines = <<>> THEN <<>>
    ELSE LineEvent(lines[1]) \o TextEvents(Tail(lines))

\* What the claim expects of a block of statements at nesting level depth:
\* a statement with a block opens, holds its children one level deeper and
\* closes behind its own margin; one without is a leaf.
RECURSIVE TreeEvents(_, _, _)
TreeEvents(block, depth, pad) ==
    IF block = <<>> THEN <<>>
    ELSE
    LET stmt == block[1]
        margin == Repeat(pad, depth)
        mine ==
            IF IsCommentStmt(stmt) THEN <<>>
            ELSE IF stmt.directive \in DOMAIN EXTERNAL_BUILDERS
            THEN <<[kind |-> "ext", margin |-> margin]>>
            ELSE IF stmt.block = NoBlock
            THEN <<[kind |-> "leaf", margin |-> margin]>>
            ELSE <<[kind |-> "open", margin |-> margin]>>
                 \o TreeEvents(stmt.block[1], depth + 1, pad)
                 \o <<[kind |-> "close", margin |-> margin]>>
    IN  mine \o TreeEvents(Tail(block), depth, pad)

\* The indentation unit the claim names: one tab, or indent_width spaces.
IndentUnit == IF call.tabs THEN <<TAB>> ELSE [k \in 1..call.indent |-> SP]

\* The built text without the header banner.
Body == SubSeq(output, Len(head(call.header)) + 1, Len(output))

-----------------------------------------------------------------------------
(* builder.py: build_files                                                 *)
(*                                                                         *)
(* A path is <<directory, file name>>; a config's 'file' is [abs, dir,     *)
(* base], absolute or relative to dirname.                                 *)

\* Mutant of rstrip: only trailing spaces and tabs are removed.
rstripBlanks(s) ==
    IF s # <<>> /\ s[Len(s)] \in {SP, TAB}
    THEN SubSeq(s, 1, Len(s) - 1) ELSE s

\* str.rstrip(): trailing whitespace removed.
RECURSIVE rstrip(_)
rstrip(s) ==
    IF s # <<>> /\ s[Len(s)] \in {SP, NL, TAB}
    THEN rstrip(SubSeq(s, 1, Len(s) - 1)) ELSE s

\* builder.py:142-144 (and __main__.py:79-81): os.path.isabs, os.path.join
TargetPath(dirname, file) ==
    IF file.abs THEN <<file.dir, file.base>> ELSE <<dirname, file.base>>

\* codecs.open(path, 'w').write(text)
Written(fs, path, text) ==
    [q \in (DOMAIN fs) \cup {path} |-> IF q = path THEN text ELSE fs[q]]

\* What build_files writes for one config: build's result, right-stripped,
\* and one newline (builder.py:153-154; __main__.py:99-100 prints the same).
FileText(parsed, s, builders) ==
    rstrip(build(parsed, s.indent, s.tabs, s.header, builders)) \o <<NL>>

\* `for config in payload['config']` from the i-th config on; fs is
\* [files, dirs, writes].
RECURSIVE BuildFilesLoop(_, _, _, _, _, _)
BuildFilesLoop(fs, config, i, dirname, s, builders) ==
    IF i > Len(config) THEN fs
    ELSE LET path == TargetPath(dirname, config[i].file)
             dirpath == path[1]
             text == FileText(config[i].parsed, s, builders)
         IN  BuildFilesLoop(
                 [files |-> Written(fs.files, path, text),
                  dirs |-> fs.dirs \cup {dirpath},
                  writes |-> fs.writes \cup {path}],
                 config, i + 1, dirname, s, builders)

build_files(fs, config, dirname, s, builders) ==
    BuildFilesLoop(fs, config, 1, dirname, s, builders)

-----------------------------------------------------------------------------
(* Calling build and build_files on a file system *)

Dirname == "/d"
RelFile == [abs |-> FALSE, dir |-> "", base |-> "a.conf"]
AbsFile == [abs |-> TRUE, dir |-> "/etc", base |-> "b.conf"]
FileNames == {RelFile, AbsFile}
OldText == <<"o", "l", "d">>

\* The file systems a call may find: each target exists or not.
FileSystems ==
    {[files |-> [q \in P |-> OldText], dirs |-> {q[1] : q \in P}, writes |-> {}] :
        P \in SUBSET {TargetPath(Dirname, f) : f \in FileNames}}

TrailingComment(l) == Stmt(<<HASH>>, l, <<>>, NoBlock, <<"c", SP, NL>>)
FileStmts ==
    Leaves \cup {TrailingComment(l) : l \in Lines}
        \cup {WithBlock(A, <<>>, l, c) :
                l \in Lines, c \in UpToTwo({Leaf(A, <<>>, 1), Comment(1)})}
FileTrees ==
    {<<>>} \cup {<<t>> : t \in FileStmts}
        \cup {<<t, x>> : t \in FileStmts,
                x \in {Leaf(A, <<>>, 1), Comment(0), Comment(1), TrailingComment(1)}}
SecondTrees == {<<>>, <<Leaf(A, <<>>, 1)>>}
Config(file, parsed) == [file |-> file, parsed |-> parsed]
FileConfigs ==
    {<<Config(f, t)>> : f \in FileNames, t \in FileTrees}
        \cup {<<Config(f, t), Config(g, u)>> :
                f \in FileNames, t \in FileTrees, g \in FileNames, u \in SecondTrees}

InitFiles ==
    /\ pc = "ready"
    /\ QuoteIdle
    /\ BuildIdle
    /\ CmdIdle
    /\ \E fs \in FileSystems :
        files = fs.files /\ dirs = fs.dirs /\ writes = fs.writes
    /\ FmtIdle
    /\ ErrIdle

\* build(parsed, indent, tabs, header), called directly
FileBuildCall ==
    /\ pc = "ready"
    /\ \E payload \in FileTrees, s \in Settings : Build(payload, s)

\* build_files({'config': config}, dirname, indent, tabs, header)
BuildFiles(config, s) ==
    /\ pc = "ready"
    /\ LET fs == build_files([files |-> files, dirs |-> dirs, writes |-> writes],
                             config, Dirname, s, EXTERNAL_BUILDERS)
       IN  files' = fs.files /\ dirs' = fs.dirs /\ writes' = fs.writes
    /\ call' = [payload |-> config, indent |-> s.indent, tabs |-> s.tabs,
                header |-> s.header]
    /\ pc' = "written"
    /\ UNCHANGED <<quoteVars, EXTERNAL_BUILDERS, output, cmdVars, fmtVars,
                   errVars>>

BuildFilesCall ==
    /\ pc = "ready"
    /\ \E config \in FileConfigs, s \in Settings : BuildFiles(config, s)

NextFiles == FileBuildCall \/ BuildFilesCall

SpecFiles == InitFiles /\ [][NextFiles]_vars

\* A text ends with exactly one trailing newline character.
EndsWithOneNewline(s) ==
    /\ s # <<>>
    /\ s[Len(s)] = NL
    /\ Len(s) >= 2 => s[Len(s) - 1] # NL

\* C7 as stated: the string build returns ends with exactly one trailing
\* newline.
BuildEndsWithOneNewline ==
    pc = "built" => EndsWithOneNewline(output)

\* C7 as amended: every text build_files writes for a statement tree
\* (build's result, right-stripped, plus a newline) ends with exactly one
\* trailing newline; the untouched files keep their content.
WrittenEndsWithOneNewline ==
    pc = "written" =>
        /\ writes = {TargetPath(Dirname, call.payload[i].file) :
                        i \in 1..Len(call.payload)}
        /\ \A q \in writes : EndsWithOneNewline(files[q])
        /\ \A q \in (DOMAIN files) \ writes : files[q] = OldText

\* C7 witness: build_files has written the empty tree with the header
\* banner, whose build result ends in two newlines, over an existing file.
BannerOnlyWritten ==
    /\ pc = "written"
    /\ Len(call.payload) = 1
    /\ call.payload[1].parsed = <<>>
    /\ call.header
    /\ files[TargetPath(Dirname, call.payload[1].file)] # OldText
    /\ Cardinality(DOMAIN files) = 2

-----------------------------------------------------------------------------
(* __main__.py: the build command                                          *)
(*                                                                         *)
(* pc: "start" -> FindExisting -> "prompt" | "emit";                       *)
(*     "prompt" -> PromptYes -> "emit" | "done" | "exit1";                 *)
(*     "emit" -> PrintConfigs | WriteConfigs -> "done".                    *)

\* str.lower() on one character
lower(c) == IF c = "Y" THEN "y" ELSE IF c = "N" THEN "n" ELSE c

\* Mutant of StartsWithY: any reply counts as a yes.
StartsWithAnything(text) == TRUE

\* input(...).lower().startswith('y')
StartsWithY(text) == text # <<>> /\ lower(text[1]) = "y"

\* _prompt_yes: "yes", "no", or "exit" for sys.exit(1) on KeyboardInterrupt
\* and EOFError.
_prompt_yes(r) ==
    IF r.kind = "line" THEN (IF StartsWithY(r.text) THEN "yes" ELSE "no")
    ELSE "exit"

\* What the user can do at the prompt.
Line(text) == [kind |-> "line", text |-> text]
Replies ==
    {Line(t) : t \in {<<>>, <<"y">>, <<"Y">>, <<"y", "e", "s">>, <<"n">>,
                      <<"N">>, <<SP, "y">>, <<"n", "y">>}}
        \cup {[kind |-> "EOFError", text |-> <<>>],
              [kind |-> "KeyboardInterrupt", text |-> <<>>]}

\* The target paths of payload['config'], in order.
Targets(config) == [i \in 1..Len(config) |-> TargetPath(Dirname, config[i].file)]

\* __main__.py:77-84: the targets that os.path.exists finds, in order.
RECURSIVE ExistingFrom(_, _, _)
ExistingFrom(config, i, fs) ==
    IF i > Len(config) THEN <<>>
    ELSE LET path == TargetPath(Dirname, config[i].file)
         IN  (IF path \in DOMAIN fs THEN <<path>> ELSE <<>>)
                 \o ExistingFrom(config, i + 1, fs)

\* __main__.py:94-102: one printed entry per config.
StdoutPrints(config, s, builders) ==
    [i \in 1..Len(config) |->
        <<"config", TargetPath(Dirname, config[i].file),
          FileText(config[i].parsed, s, builders)>>]

\* __main__.py:108-113
VerbosePrints(config) ==
    [i \in 1..Len(config) |-> <<"wrote to", TargetPath(Dirname, config[i].file)>>]

CmdTrees ==
    {<<>>, <<Leaf(A, <<>>, 1)>>, <<WithBlock(A, <<>>, 1, <<Comment(1)>>)>>}
CmdEntries == {Config(f, t) : f \in FileNames, t \in CmdTrees}
CmdConfigs == UpToTwo(CmdEntries)
Argvs ==
    [force : BOOLEAN, stdout : BOOLEAN, verbose : BOOLEAN, indent : Indents,
     tabs : BOOLEAN, header : BOOLEAN, config : CmdConfigs]

InitCmd ==
    /\ pc = "start"
    /\ QuoteIdle
    /\ BuildIdle
    /\ \E fs \in FileSystems :
        files = fs.files /\ dirs = fs.dirs /\ writes = fs.writes
    /\ argv \in Argvs
    /\ existing = <<>>
    /\ prompted = FALSE
    /\ reply = NoReply
    /\ printed = <<>>
    /\ FmtIdle
    /\ ErrIdle

\* __main__.py:76-87: `if not force and not stdout:` up to the prompt
FindExisting ==
    /\ pc = "start"
    /\ IF ~argv.force /\ ~argv.stdout
       THEN LET found == ExistingFrom(argv.config, 1, files)
            IN  /\ existing' = found
                /\ IF found # <<>>
                   THEN /\ printed' = Append(printed, <<"would overwrite", found>>)
                        /\ pc' = "prompt"
                   ELSE /\ printed' = printed
                        /\ pc' = "emit"
       ELSE /\ pc' = "emit"
            /\ UNCHANGED <<existing, printed>>
    /\ UNCHANGED <<quoteVars, buildVars, fsVars, argv, prompted, reply, fmtVars,
                   errVars>>

\* __main__.py:88-90: `if not _prompt_yes(): print('not overwritten'); return`
PromptYes(r) ==
    /\ pc = "prompt"
    /\ prompted' = TRUE
    /\ reply' = r
    /\ LET answer == _prompt_yes(r)
       IN  /\ pc' = IF answer = "exit" THEN "exit1"
                    ELSE IF answer = "yes" THEN "emit" ELSE "done"
           /\ printed' = IF answer = "no"
                         THEN Append(printed, <<"not overwritten">>)
                         ELSE printed
    /\ UNCHANGED <<quoteVars, buildVars, fsVars, argv, existing, fmtVars,
                   errVars>>

Prompt ==
    /\ pc = "prompt"
    /\ \E r \in Replies : PromptYes(r)

\* __main__.py:93-103: `if stdout:` prints every config and returns
PrintConfigs ==
    /\ pc = "emit"
    /\ argv.stdout
    /\ printed' = printed \o StdoutPrints(argv.config, argv, EXTERNAL_BUILDERS)
    /\ pc' = "done"
    /\ UNCHANGED <<quoteVars, buildVars, fsVars, argv, existing, prompted, reply, fmtVars,
                   errVars>>

\* __main__.py:105-113: build_files, then the verbose report
WriteConfigs ==
    /\ pc = "emit"
    /\ ~argv.stdout
    /\ LET fs == build_files([files |-> files, dirs |-> dirs, writes |-> writes],
                             argv.config, Dirname, argv, EXTERNAL_BUILDERS)
       IN  files' = fs.files /\ dirs' = fs.dirs /\ writes' = fs.writes
    /\ printed' = IF argv.verbose THEN printed \o VerbosePrints(argv.config)
                  ELSE printed
    /\ pc' = "done"
    /\ UNCHANGED <<quoteVars, buildVars, argv, existing, prompted, reply, fmtVars,
                   errVars>>

NextCmd == FindExisting \/ Prompt \/ PrintConfigs \/ WriteConfigs

SpecCmd == InitCmd /\ [][NextCmd]_vars

\* The set of target paths of the run.
TargetSet == {TargetPath(Dirname, argv.config[i].file) : i \in 1..Len(argv.config)}

\* No file has been created or modified: nothing was written, no directory
\* was made, and every file holds its old content.
NothingWritten ==
    /\ writes = {}
    /\ \A q \in DOMAIN files : files[q] = OldText
    /\ dirs = {q[1] : q \in DOMAIN files}

\* The reply given at the prompt starts with `y` or `Y`.
RepliedYes ==
    /\ reply.kind = "line"
    /\ reply.text # <<>>
    /\ reply.text[1] \in {"y", "Y"}

\* With force and stdout false the run prompts exactly when a target exists,
\* and writes only after a reply that starts with y or Y; any other reply,
\* EOF or a keyboard interrupt ends the run with nothing written.
PromptGuardsOverwrite ==
    /\ pc \in {"prompt", "emit"} /\ ~argv.force /\ ~argv.stdout =>
        /\ existing = ExistingFrom(argv.config, 1, files)
        /\ (pc = "prompt" \/ prompted) = (TargetSet \cap DOMAIN files # {})
    /\ pc = "prompt" => NothingWritten
    /\ prompted => ~argv.force /\ ~argv.stdout /\ existing # <<>>
    /\ prompted /\ ~RepliedYes => pc \in {"done", "exit1"} /\ NothingWritten
    /\ prompted /\ RepliedYes /\ pc = "done" => writes = TargetSet
    /\ pc = "exit1" => prompted /\ reply.kind \in {"EOFError", "KeyboardInterrupt"}
    /\ prompted /\ reply.kind \in {"EOFError", "KeyboardInterrupt"} => pc = "exit1"

\* With stdout true no file is ever written.
StdoutWritesNothing == argv.stdout => NothingWritten

\* C10 as stated: the prompt guards every overwrite, stdout writes nothing,
\* and whenever force is true the files are written without any prompt.
OverwriteProtectionAsStated ==
    /\ PromptGuardsOverwrite
    /\ StdoutWritesNothing
    /\ argv.force => ~prompted /\ (pc = "done" => writes = TargetSet)

\* C10 as amended: the prompt guards every overwrite, stdout writes
\* nothing, force never prompts, and when force is true and stdout is false
\* every target is written without any prompt.
OverwriteProtection ==
    /\ PromptGuardsOverwrite
    /\ StdoutWritesNothing
    /\ argv.force => ~prompted
    /\ argv.force /\ ~argv.stdout /\ pc = "done" => writes = TargetSet

\* C10 witness: a run without force or stdout found an existing target,
\* prompted, got a reply that does not start with y, and ended.
DeclinedOverwrite ==
    /\ pc = "done"
    /\ prompted
    /\ reply = Line(<<"n", "y">>)
    /\ existing # <<>>
    /\ Len(argv.config) = 2

-----------------------------------------------------------------------------
(* The Tree Parser (crossplane/parser.py), after its specification,       *)
(* section 4.4: comments enabled, single mode, no context or argument      *)
(* checks, which is how formatter.py calls it.                             *)

IsDelimiter(t, c) == ~t.quoted /\ t.text = <<c>>

ParseError == [ok |-> FALSE, stmts |-> <<>>, next |-> 0]

\* collecting-args: words accumulate into args until `{` or `;`.
RECURSIVE CollectArgs(_, _, _)
CollectArgs(toks, j, acc) ==
    IF j > Len(toks) THEN [ok |-> FALSE, args |-> acc, next |-> j]
    ELSE LET t == toks[j] IN
         IF IsDelimiter(t, LBRACE) \/ IsDelimiter(t, SEMI)
         THEN [ok |-> TRUE, args |-> acc, next |-> j]
         ELSE IF IsDelimiter(t, RBRACE) \/ IsComment(t)
         THEN [ok |-> FALSE, args |-> acc, next |-> j]
         ELSE CollectArgs(toks, j + 1, Append(acc, t.text))

\* expect-directive at context depth `depth`, from token i on; in-block is
\* the same state one level deeper.  Returns [ok, stmts, next].
RECURSIVE ParseStatements(_, _, _, _)
ParseStatements(toks, i, depth, acc) ==
    IF i > Len(toks) THEN [ok |-> depth = 0, stmts |-> acc, next |-> i]
    ELSE LET t == toks[i] IN
         IF IsDelimiter(t, RBRACE)
         THEN [ok |-> depth > 0, stmts |-> acc, next |-> i + 1]
         ELSE IF IsComment(t)
         THEN ParseStatements(toks, i + 1, depth,
                  Append(acc, Stmt(<<HASH>>, t.line, <<>>, NoBlock, Tail(t.text))))
         ELSE IF IsDelimiter(t, LBRACE) \/ IsDelimiter(t, SEMI)
         THEN ParseError
         ELSE LET a == CollectArgs(toks, i + 1, <<>>) IN
              IF ~a.ok THEN ParseError
              ELSE IF IsDelimiter(toks[a.next], SEMI)
              THEN ParseStatements(toks, a.next + 1, depth,
                       Append(acc, Stmt(t.text, t.line, a.args, NoBlock, <<>>)))
              ELSE LET b == ParseStatements(toks, a.next + 1, depth + 1, <<>>) IN
                   IF ~b.ok THEN ParseError
                   ELSE ParseStatements(toks, b.next, depth,
                            Append(acc, Stmt(t.text, t.line, a.args,
                                             Block(b.stmts), <<>>)))

\* parse(...): [ok, parsed]; ok is payload['status'] == 'ok'.
parse(txt) ==
    LET s == scan(txt) IN
    IF ~s.ok THEN [ok |-> FALSE, parsed |-> <<>>]
    ELSE LET r == ParseStatements(s.tokens, 1, 0, <<>>)
         IN  [ok |-> r.ok, parsed |-> IF r.ok THEN r.stmts ELSE <<>>]

-----------------------------------------------------------------------------
(* formatter.py: format *)

\* [ok, output]: ok is FALSE where format raises NgxParserBaseException.
format(txt, indent, tabs, builders) ==
    LET payload == parse(txt) IN
    IF ~payload.ok THEN [ok |-> FALSE, output |-> <<>>]
    ELSE [ok |-> TRUE, output |-> build(payload.parsed, indent, tabs, FALSE, builders)]

\* Configuration texts: [leading comment] name args tail [what follows].
LeadTexts == {<<>>, <<HASH, "c", NL>>}
NameTexts == {A, If}
ArgTexts ==
    {<<>>, <<SP, "b">>, <<SP, "(", "b", ")">>, <<SP, DQ, "x", SP, "y", DQ>>}
TailTexts ==
    {<<SEMI>>,
     <<SP, LBRACE, RBRACE>>,
     <<SP, LBRACE, NL, "b", SEMI, NL, RBRACE>>,
     <<SP, LBRACE, SP, HASH, "c", NL, RBRACE>>,
     <<>>,
     <<SP, LBRACE>>,
     <<RBRACE>>}
FollowTexts ==
    {<<>>, <<SP, HASH, SP, "c">>, <<NL, HASH, SP, "c">>, <<NL>>,
     <<NL, "a", SEMI>>}
FormatTexts ==
    {l \o n \o a \o t \o f :
        l \in LeadTexts, n \in NameTexts, a \in ArgTexts, t \in TailTexts,
        f \in FollowTexts}

InitFormat ==
    /\ pc = "ready"
    /\ QuoteIdle
    /\ BuildIdle
    /\ FilesIdle
    /\ CmdIdle
    /\ source \in FormatTexts
    /\ formatted = <<>>
    /\ ErrIdle

\* format(file holding `source`, indent, tabs)
Format(indent, tabs) ==
    /\ pc = "ready"
    /\ LET r == format(source, indent, tabs, EXTERNAL_BUILDERS)
       IN  /\ formatted' = IF r.ok THEN <<r.output>> ELSE formatted
           /\ pc' = IF r.ok THEN "formatted" ELSE "raised"
    /\ call' = [payload |-> <<>>, indent |-> indent, tabs |-> tabs,
                header |-> FALSE]
    /\ UNCHANGED <<quoteVars, EXTERNAL_BUILDERS, output, fsVars, cmdVars, source,
                   errVars>>

FormatCall ==
    /\ pc = "ready"
    /\ \E indent \in Indents, tabs \in BOOLEAN : Format(indent, tabs)

\* format again, on a file holding the first pass's result, same settings
Reformat ==
    /\ pc = "formatted"
    /\ LET r == format(formatted[1], call.indent, call.tabs, EXTERNAL_BUILDERS)
       IN  /\ formatted' = IF r.ok THEN Append(formatted, r.output) ELSE formatted
           /\ pc' = IF r.ok THEN "reformatted" ELSE "raised again"
    /\ UNCHANGED <<quoteVars, buildVars, fsVars, cmdVars, source,
                   errVars>>

NextFormat == FormatCall \/ Reformat

SpecFormat == InitFormat /\ [][NextFormat]_vars

\* C5: idempotence of parse-then-build.  A second parse/build pass over the
\* result of the first succeeds and returns the same text:
\* build(parse(build(parse(T)))) = build(parse(T)).
Idempotence ==
    pc \in {"reformatted", "raised again"} =>
        /\ pc = "reformatted"
        /\ formatted[2] = formatted[1]

-----------------------------------------------------------------------------
(* The units _escape yields *)

\* ''.join(units)
RECURSIVE Flatten(_)
Flatten(units) ==
    IF units = <<>> THEN <<>> ELSE units[1] \o Flatten(Tail(units))

\* A single character, a backslash followed by one character, or ${.
IsAtomicUnit(u) ==
    \/ Len(u) = 1
    \/ Len(u) = 2 /\ (u[1] = BS \/ u = <<DOLLAR, LBRACE>>)

\* C11: atomic-unit partition.  The units _escape yields for a string
\* concatenate to exactly that string, and each unit is a single character,
\* a backslash followed by one character, or the pair ${.
AtomicUnitPartition ==
    pc = "quoted" =>
        /\ Flatten(_escape(arg)) = arg
        /\ \A i \in 1..Len(_escape(arg)) : IsAtomicUnit(_escape(arg)[i])

-----------------------------------------------------------------------------
(* errors.py: NgxParserBaseException and its subclasses                    *)
(*                                                                         *)
(* An Optional value is None or Some(x).  pc: "ready" -> Raise |           *)
(* FormatRaise -> "raised" -> Str -> "rendered".                           *)

\* errors.py:5, 19-36
ExceptionClasses ==
    {"NgxParserBaseException", "NgxParserSyntaxError", "NgxParserDirectiveError",
     "NgxParserDirectiveArgumentsError", "NgxParserDirectiveContextError",
     "NgxParserDirectiveUnknownError"}

\* errors.py:6-10: __init__(strerror, filename, lineno); self.args is the
\* tuple of the three, whatever they are.
NewException(cls, strerror, filename, lineno) ==
    [cls |-> cls, strerror |-> strerror, filename |-> filename, lineno |-> lineno]
ExceptionArgs(e) == <<e.strerror, e.filename, e.lineno>>

\* str() of an Optional[str] and of an Optional[int]
StrOfOptStr(v) == IF v = None THEN <<"N", "o", "n", "e">> ELSE v[1]
StrOfOptInt(v) == IF v = None THEN <<"N", "o", "n", "e">> ELSE <<Digit[v[1] + 1]>>

\* format % args for a format string of `conversions` %s and a tuple args:
\* TypeError unless the tuple has one argument per conversion.
Interpolate(conversions, args, text) ==
    IF Len(args) # conversions
    THEN [raised |-> "TypeError", text |-> <<>>]
    ELSE [raised |-> "", text |-> text]

\* errors.py:12-16: __str__
__str__(e) ==
    LET args == ExceptionArgs(e)
        in == <<SP, "i", "n", SP>>
    IN  IF e.lineno # None
        THEN Interpolate(3, args,
                 args[1] \o in \o StrOfOptStr(args[2]) \o <<":">>
                     \o StrOfOptInt(args[3]))
        ELSE Interpolate(2, args, args[1] \o in \o StrOfOptStr(args[2]))

ErrorTexts == {<<"m">>, <<"m", SP, "n">>}
ErrorFile == <<"f">>
OptionalLines == {None} \cup {Some(l) : l \in Lines}
OptionalFiles == {None, Some(ErrorFile)}
\* payload['errors'][0] of a failed response
ErrorEntries ==
    [error : ErrorTexts, file : {ErrorFile}, line : OptionalLines]

InitError ==
    /\ pc = "ready"
    /\ QuoteIdle
    /\ BuildIdle
    /\ FilesIdle
    /\ CmdIdle
    /\ FmtIdle
    /\ response \in ErrorEntries
    /\ error = NoError
    /\ message = NoStr

\* raise cls(strerror, filename, lineno)
Raise(cls, strerror, filename, lineno) ==
    /\ pc = "ready"
    /\ error' = NewException(cls, strerror, filename, lineno)
    /\ pc' = "raised"
    /\ UNCHANGED <<quoteVars, buildVars, fsVars, cmdVars, fmtVars, response,
                   message>>

RaiseAny ==
    /\ pc = "ready"
    /\ \E cls \in ExceptionClasses, strerror \in ErrorTexts,
          filename \in OptionalFiles, lineno \in OptionalLines :
            Raise(cls, strerror, filename, lineno)

\* formatter.py:16-18: e = payload['errors'][0]; raise
\* NgxParserBaseException(e['error'], e['file'], e['line'])
FormatRaise ==
    /\ pc = "ready"
    /\ error' = NewException("NgxParserBaseException", response.error,
                             Some(response.file), response.line)
    /\ pc' = "raised"
    /\ UNCHANGED <<quoteVars, buildVars, fsVars, cmdVars, fmtVars, response,
                   message>>

\* str(error)
Str ==
    /\ pc = "raised"
    /\ message' = __str__(error)
    /\ pc' = "rendered"
    /\ UNCHANGED <<quoteVars, buildVars, fsVars, cmdVars, fmtVars, response,
                   error>>

NextError == RaiseAny \/ FormatRaise \/ Str

SpecError == InitError /\ [][NextError]_vars

\* The message string a parser error is to give: `<message> in <file>:<line>`
\* with a line, `<message> in <file>` without.
ExpectedMessage(e) ==
    e.strerror \o <<SP, "i", "n", SP>> \o StrOfOptStr(e.filename)
        \o (IF e.lineno = None THEN <<>> ELSE <<":">> \o StrOfOptInt(e.lineno))

\* C12: error message rendering.  Converting a parser error to its message
\* string raises nothing, with or without a line number, and gives
\* `<message> in <file>:<line>` or, without a line, `<message> in <file>`.
ErrorMessageRendering ==
    pc = "rendered" =>
        /\ message.raised = ""
        /\ message.text = ExpectedMessage(error)

=============================================================================
